---------------------------- MODULE Spec2Model ----------------------------
(***************************************************************************)
(* Model of the signature builder (normalizeUrl, escapeHtml,               *)
(* buildSignatureHTML) of the email-signature generator, and of the case   *)
(* converter (computeOutput and the transforms it dispatches to).          *)
(*                                                                         *)
(* A JavaScript string is a sequence of one-character strings.  The text   *)
(* of a template literal is kept as markup tokens: every token is a string *)
(* of two or more characters, so an element of the output that is a single *)
(* character always comes from an interpolated value, never from the       *)
(* template.  Indentation and line breaks between the tags of a template   *)
(* are left out, except the line break that opens and closes the outermost *)
(* template, which the final trim() removes.                               *)
(***************************************************************************)
EXTENDS Naturals, Sequences, FiniteSets, TLC

VARIABLES pc,    \* position: "edit" (a record is being filled in), "call", "ret"
          base,  \* the record the caller started from
          str,   \* the string argument of normalizeUrl / escapeHtml
          out,   \* the string those functions returned
          data,  \* the FormData argument of buildSignatureHTML
          opts,  \* the BuildOpts argument: its theme, "undefined" when absent
          html,  \* the string buildSignatureHTML returned
          input,    \* the text argument of computeOutput
          preserve, \* its preserve flag
          active,   \* its transform key
          showErrors, \* the form's showErrors state
          toast,      \* the message on display, "" when none
          copying,    \* the copy action that awaits the clipboard, if any
          trace,      \* the calls of the copy action in progress or just done
          reads       \* the FileReader loads that have not completed yet

vars == <<pc, base, str, out, data, opts, html, input, preserve, active,
          showErrors, toast, copying, trace, reads>>

\* No copy action is waiting.
Idle == [pc |-> "idle", kind |-> "none", hasErrors |-> FALSE, text |-> <<>>]

\* The user interface at rest, as after the first render.
UiIdle ==
  /\ showErrors = FALSE /\ toast = "" /\ copying = Idle /\ trace = <<>> /\ reads = 0

uiVars == <<showErrors, toast, copying, trace, reads>>

(***************************************************************************)
(* Bounds of the model.                                                    *)
(***************************************************************************)
MaxStrLen == 3
MaxBodyLen == 2
MaxFields == 2
MaxDemoEdits == 1

(***************************************************************************)
(* Strings.                                                                *)
(***************************************************************************)
Str(s) == [i \in 1..Len(s) |-> SubSeq(s, i, i)]

RECURSIVE Join(_, _)
Join(parts, sep) ==
  IF parts = <<>> THEN <<>>
  ELSE IF Len(parts) = 1 THEN parts[1]
  ELSE parts[1] \o sep \o Join(Tail(parts), sep)

FilterBoolean(parts) == SelectSeq(parts, LAMBDA p : p # <<>>)

WhiteSpace == {" ", "\n", "\t"}

RECURSIVE TrimStart(_)
TrimStart(s) ==
  IF s # <<>> /\ Head(s) \in WhiteSpace THEN TrimStart(Tail(s)) ELSE s

RECURSIVE TrimEnd(_)
TrimEnd(s) ==
  IF s # <<>> /\ s[Len(s)] \in WhiteSpace
  THEN TrimEnd(SubSeq(s, 1, Len(s) - 1)) ELSE s

TrimLeadingOnly(s) == TrimStart(s)

Trim(s) == TrimEnd(TrimStart(s))

\* s.replace(/ch/g, rep): every element ch of s replaced by the elements of rep.
RECURSIVE Replace(_, _, _)
Replace(s, ch, rep) ==
  IF s = <<>> THEN <<>>
  ELSE IF Len(s) = 1 THEN (IF s[1] = ch THEN rep ELSE s)
  ELSE LET half == Len(s) \div 2
       IN  Replace(SubSeq(s, 1, half), ch, rep)
           \o Replace(SubSeq(s, half + 1, Len(s)), ch, rep)

LowerOf(ch) ==
  CASE ch = "H" -> "h" [] ch = "T" -> "t" [] ch = "P" -> "p" [] ch = "S" -> "s"
    [] ch = "M" -> "m" [] ch = "A" -> "a" [] ch = "I" -> "i" [] ch = "L" -> "l"
    [] ch = "O" -> "o" [] ch = "E" -> "e" [] OTHER -> ch

MatchesIgnoreCase(s, prefix) ==
  /\ Len(s) >= Len(prefix)
  /\ \A i \in 1..Len(prefix) : LowerOf(s[i]) = prefix[i]

Matches(s, prefix) ==
  /\ Len(s) >= Len(prefix)
  /\ \A i \in 1..Len(prefix) : s[i] = prefix[i]

(***************************************************************************)
(* normalizeUrl                                                            *)
(***************************************************************************)
SchemePrefixes ==
  { Str("mailto:"), Str("tel:"), Str("http://"), Str("https://") }

HasSchemeCaseSensitive(v) == \E p \in SchemePrefixes : Matches(v, p)

HasScheme(v) == \E p \in SchemePrefixes : MatchesIgnoreCase(v, p)

normalizeUrl(raw) ==
  LET v == Trim(raw)
  IN  IF v = <<>> THEN <<>>
      ELSE IF HasScheme(v) THEN v
      ELSE Str("https://") \o v

(***************************************************************************)
(* escapeHtml                                                              *)
(***************************************************************************)
EscapeHtmlAmpLast(s) ==
  Replace(Replace(Replace(Replace(Replace(s,
    "<", Str("&lt;")),
    ">", Str("&gt;")),
    "\"", Str("&quot;")),
    "'", Str("&#039;")),
    "&", Str("&amp;"))

escapeHtml(s) ==
  Replace(Replace(Replace(Replace(Replace(s,
    "&", Str("&amp;")),
    "<", Str("&lt;")),
    ">", Str("&gt;")),
    "\"", Str("&quot;")),
    "'", Str("&#039;"))

(***************************************************************************)
(* FormData, DEFAULTS, DEMO_DATA and the generated assets.                 *)
(***************************************************************************)
Fields ==
  { "firstName", "lastName", "jobTitle", "department", "companyName",
    "officePhone", "mobilePhone", "websiteUrl", "emailAddress", "address",
    "logoUrl", "logoDataUrl", "linkedin", "facebook", "twitter", "instagram",
    "whatsapp", "legal" }

DEFAULTS == [f \in Fields |-> <<>>]

DEMO_DATA ==
  [ firstName    |-> Str("Alex"),
    lastName     |-> Str("Johnson"),
    jobTitle     |-> Str("Senior Product Designer"),
    department   |-> Str("Fintech & Payments"),
    companyName  |-> Str("Acme Payments Inc."),
    officePhone  |-> Str("+1 212 555 0199"),
    mobilePhone  |-> Str("+1 917 555 0421"),
    websiteUrl   |-> Str("acmepayments.com"),
    emailAddress |-> Str("alex.johnson@acmepayments.com"),
    address      |-> Str("350 Fifth Avenue, New York, NY, USA"),
    logoUrl      |-> <<>>,
    logoDataUrl  |-> <<>>,
    linkedin     |-> Str("https://linkedin.com/in/alexjohnson"),
    facebook     |-> Str("https://facebook.com/alex.johnson"),
    twitter      |-> Str("https://x.com/alexjohnson"),
    instagram    |-> Str("https://instagram.com/alexjohnson"),
    whatsapp     |-> Str("https://wa.me/19175550421"),
    legal        |-> Str("This email and any attachments are confidential and intended solely for the addressee. If you have received this message in error, please notify the sender and delete it immediately.") ]

\* The data URI of an svg: one token when it is an icon of the template.
iconDataUri(svg) == "data:image/svg+xml;charset=utf-8," \o svg

mk(txt, size, stroke) ==
  iconDataUri("%3Csvg%3E%3Crect stroke=%22" \o stroke \o "%22/%3E%3Ctext font-size=%22"
              \o size \o "%22 fill=%22" \o stroke \o "%22%3E" \o txt \o "%3C/text%3E%3C/svg%3E")

makeSocialIcons(stroke) ==
  [ linkedin  |-> mk("in", "9", stroke),
    facebook  |-> mk("f", "9", stroke),
    twitter   |-> mk("X", "9", stroke),
    instagram |-> mk("ig", "9", stroke),
    whatsapp  |-> mk("wa", "8.5", stroke) ]

SOCIAL_LIGHT == makeSocialIcons("#6b7280")
SOCIAL_DARK == makeSocialIcons("#cbd5e1")

\* The demo logo is a field value (logoDataUrl), so a sequence of characters.
DEMO_LOGO ==
  Str(iconDataUri("%3Csvg%3E%3Crect stroke=%22#111827%22/%3E%3Cpath fill=%22#111827%22/%3E%3C/svg%3E"))

(***************************************************************************)
(* buildSignatureHTML: the constants of its body, then its body.           *)
(***************************************************************************)
ThemeOfLightOnly(o) == IF o.theme = "light" THEN "light" ELSE "dark"

ThemeOf(o) == IF o.theme = "dark" THEN "dark" ELSE "light"

SOCIAL(theme) == IF theme = "dark" THEN SOCIAL_DARK ELSE SOCIAL_LIGHT

black(theme)   == IF theme = "dark" THEN "#f8fafc" ELSE "#111827"
gray600(theme) == IF theme = "dark" THEN "#e5e7eb" ELSE "#4b5563"
gray500(theme) == IF theme = "dark" THEN "#cbd5e1" ELSE "#6b7280"
gray400(theme) == IF theme = "dark" THEN "#94a3b8" ELSE "#9ca3af"

TableOpen ==
  "<table role=\"presentation\" cellpadding=\"0\" cellspacing=\"0\" border=\"0\" style=\"border-collapse:collapse; ${baseTd}\">"
PlainTdOpen == "<td style=\"padding:0; ${baseTd}\">"
PaddedTdOpen == "<td style=\"padding-top:10px; ${baseTd}\">"
RowTdOpen ==
  "<td style=\"padding:2px 0; ${baseTd} font-size:14px; line-height:18px; color:"
LegalTdOpen ==
  "<td style=\"padding-top:12px; ${baseTd} font-size:11px; line-height:15px; color:"
LogoTdOpen == "<td style=\"vertical-align:top; padding-right:12px;\">"
StackTdOpen == "<td style=\"vertical-align:top; ${baseTd}\">"
ImgLogoOpen == "<img src=\""
ImgLogoClose ==
  "\" width=\"48\" height=\"48\" style=\"display:block; border:0; outline:none; text-decoration:none; border-radius:10px;\" alt=\"\" />"
NameDivOpen ==
  "<div style=\"${baseTd} font-size:18px; line-height:22px; font-weight:700; color:"
LineDivOpen ==
  "<div style=\"${baseTd} padding-top:2px; font-size:14px; line-height:18px; color:"
SocialCellOpen == "<td style=\"padding-right:8px;\"><a href=\""
SocialImgOpen ==
  "\" style=\"text-decoration:none;\" target=\"_blank\" rel=\"noopener noreferrer\"><img src=\""
SocialImgAlt ==
  "\" width=\"24\" height=\"24\" style=\"display:block; border:0; outline:none; text-decoration:none;\" alt=\""
SocialCellClose == "\" /></a></td>"

fullName(d) == Trim(Join(FilterBoolean(<<d.firstName, d.lastName>>), <<" ">>))

\* The separator " \u2022 " (space, bullet, space); the bullet is one element.
Bullet == "U+2022"

jobLine(d) ==
  Trim(Join(FilterBoolean(<<d.jobTitle, d.department>>), <<" ", Bullet, " ">>))

company(d)     == Trim(d.companyName)
officePhone(d) == Trim(d.officePhone)
mobilePhone(d) == Trim(d.mobilePhone)
email(d)       == Trim(d.emailAddress)
websiteUrl(d)  == Trim(d.websiteUrl)
address(d)     == Trim(d.address)
legal(d)       == Trim(d.legal)

LogoSrcUrlFirst(d) ==
  IF Trim(d.logoUrl) # <<>> THEN normalizeUrl(d.logoUrl) ELSE Trim(d.logoDataUrl)

logoSrc(d) ==
  IF Trim(d.logoDataUrl) # <<>> THEN Trim(d.logoDataUrl)
  ELSE IF Trim(d.logoUrl) # <<>> THEN normalizeUrl(d.logoUrl) ELSE <<>>

website(d) == IF websiteUrl(d) # <<>> THEN normalizeUrl(websiteUrl(d)) ELSE <<>>

\* website.replace(/^https?:\/\//i, "")
StripProtocol(u) ==
  IF MatchesIgnoreCase(u, Str("https://")) THEN SubSeq(u, 9, Len(u))
  ELSE IF MatchesIgnoreCase(u, Str("http://")) THEN SubSeq(u, 8, Len(u))
  ELSE u

SocialKeys == <<"linkedin", "facebook", "twitter", "instagram", "whatsapp">>

SocialLabel(key) ==
  CASE key = "linkedin"  -> Str("LinkedIn")
    [] key = "facebook"  -> Str("Facebook")
    [] key = "twitter"   -> Str("X")
    [] key = "instagram" -> Str("Instagram")
    [] key = "whatsapp"  -> Str("WhatsApp")

SocialsUnfiltered(d) ==
  [i \in 1..Len(SocialKeys) |->
     [key |-> SocialKeys[i], label |-> SocialLabel(SocialKeys[i]),
      url |-> normalizeUrl(d[SocialKeys[i]])]]

SocialsReversed(d) ==
  LET all == SelectSeq(SocialsUnfiltered(d), LAMBDA s : s.url # <<>>)
  IN  [i \in 1..Len(all) |-> all[Len(all) + 1 - i]]

socials(d) == SelectSeq(SocialsUnfiltered(d), LAMBDA s : s.url # <<>>)

RowAlways(h, theme) ==
  <<"<tr>", RowTdOpen, gray600(theme), ";\">">> \o h \o <<"</td>", "</tr>">>

row(h, theme) ==
  IF h = <<>> THEN <<>>
  ELSE <<"<tr>", RowTdOpen, gray600(theme), ";\">">> \o h \o <<"</td>", "</tr>">>

officeHtml(d, theme) ==
  IF officePhone(d) # <<>>
  THEN <<"<span style=\"color:", gray500(theme), ";\">Office:</span> <a href=\"tel:">>
       \o escapeHtml(officePhone(d))
       \o <<"\" style=\"color:", gray600(theme), "; text-decoration:none;\">">>
       \o escapeHtml(officePhone(d)) \o <<"</a>">>
  ELSE <<>>

mobileHtml(d, theme) ==
  IF mobilePhone(d) # <<>>
  THEN <<"<span style=\"color:", gray500(theme), ";\">Mobile:</span> <a href=\"tel:">>
       \o escapeHtml(mobilePhone(d))
       \o <<"\" style=\"color:", gray600(theme), "; text-decoration:none;\">">>
       \o escapeHtml(mobilePhone(d)) \o <<"</a>">>
  ELSE <<>>

emailHtml(d, theme) ==
  IF email(d) # <<>>
  THEN <<"<a href=\"mailto:">> \o escapeHtml(email(d))
       \o <<"\" style=\"color:", gray600(theme), "; text-decoration:none;\">">>
       \o escapeHtml(email(d)) \o <<"</a>">>
  ELSE <<>>

WebHtmlRawHref(d, theme) ==
  IF website(d) # <<>>
  THEN <<"<a href=\"">> \o website(d)
       \o <<"\" style=\"color:", gray600(theme), "; text-decoration:none;\">">>
       \o escapeHtml(StripProtocol(website(d))) \o <<"</a>">>
  ELSE <<>>

webHtml(d, theme) ==
  IF website(d) # <<>>
  THEN <<"<a href=\"">> \o escapeHtml(website(d))
       \o <<"\" style=\"color:", gray600(theme), "; text-decoration:none;\">">>
       \o escapeHtml(StripProtocol(website(d))) \o <<"</a>">>
  ELSE <<>>

addressHtml(d, theme) ==
  IF address(d) # <<>>
  THEN <<"<span style=\"color:", gray600(theme), ";\">">> \o escapeHtml(address(d))
       \o <<"</span>">>
  ELSE <<>>

socialCell(s, theme) ==
  <<SocialCellOpen>> \o escapeHtml(s.url)
  \o <<SocialImgOpen, SOCIAL(theme)[s.key], SocialImgAlt>>
  \o escapeHtml(s.label) \o <<SocialCellClose>>

RECURSIVE socialCells(_, _)
socialCells(ss, theme) ==
  IF ss = <<>> THEN <<>>
  ELSE socialCell(Head(ss), theme) \o socialCells(Tail(ss), theme)

socialsRow(d, theme) ==
  IF Len(socials(d)) > 0
  THEN <<"<tr>", PaddedTdOpen, TableOpen, "<tr>">>
       \o socialCells(socials(d), theme)
       \o <<"</tr>", "</table>", "</td>", "</tr>">>
  ELSE <<>>

nameDiv(d, theme) ==
  IF fullName(d) # <<>>
  THEN <<NameDivOpen, black(theme), ";\">">> \o escapeHtml(fullName(d)) \o <<"</div>">>
  ELSE <<>>

jobDiv(d, theme) ==
  IF jobLine(d) # <<>>
  THEN <<LineDivOpen, gray600(theme), ";\">">> \o escapeHtml(jobLine(d)) \o <<"</div>">>
  ELSE <<>>

companyDiv(d, theme) ==
  IF company(d) # <<>>
  THEN <<LineDivOpen, gray400(theme), ";\">">> \o escapeHtml(company(d)) \o <<"</div>">>
  ELSE <<>>

headerBlock(d, theme) ==
  IF logoSrc(d) # <<>>
  THEN <<TableOpen, "<tr>", LogoTdOpen, ImgLogoOpen>> \o escapeHtml(logoSrc(d))
       \o <<ImgLogoClose, "</td>", StackTdOpen>>
       \o nameDiv(d, theme) \o jobDiv(d, theme) \o companyDiv(d, theme)
       \o <<"</td>", "</tr>", "</table>">>
  ELSE nameDiv(d, theme) \o jobDiv(d, theme) \o companyDiv(d, theme)

LegalBlockNoBreaks(d, theme) ==
  IF legal(d) # <<>>
  THEN <<"<tr>", LegalTdOpen, gray400(theme), "; max-width:420px;\">">>
       \o escapeHtml(legal(d)) \o <<"</td>", "</tr>">>
  ELSE <<>>

legalBlock(d, theme) ==
  IF legal(d) # <<>>
  THEN <<"<tr>", LegalTdOpen, gray400(theme), "; max-width:420px;\">">>
       \o Replace(escapeHtml(legal(d)), "\n", <<"<br/>">>) \o <<"</td>", "</tr>">>
  ELSE <<>>

buildSignatureHTML(d, o) ==
  LET theme == ThemeOf(o)
  IN  Trim(
        <<"\n", TableOpen, "<tr>", PlainTdOpen, TableOpen>>
        \o <<"<tr>", PlainTdOpen>> \o headerBlock(d, theme) \o <<"</td>", "</tr>">>
        \o <<"<tr>", PaddedTdOpen, TableOpen>>
        \o row(officeHtml(d, theme), theme)
        \o row(mobileHtml(d, theme), theme)
        \o row(emailHtml(d, theme), theme)
        \o row(webHtml(d, theme), theme)
        \o row(addressHtml(d, theme), theme)
        \o <<"</table>", "</td>", "</tr>">>
        \o socialsRow(d, theme)
        \o legalBlock(d, theme)
        \o <<"</table>", "</td>", "</tr>", "</table>", "\n">>)

(***************************************************************************)
(* Inputs.                                                                 *)
(***************************************************************************)
RECURSIVE StringsUpTo(_, _)
StringsUpTo(alphabet, n) ==
  IF n = 0 THEN {<<>>}
  ELSE LET shorter == StringsUpTo(alphabet, n - 1)
       IN  shorter \cup {<<c>> \o s : c \in alphabet, s \in {t \in shorter : Len(t) = n - 1}}

EscapeAlphabet == {"&", "<", ">", "\"", "'", "a", ";", "\n"}

EscapeInputs == StringsUpTo(EscapeAlphabet, MaxStrLen)

UrlHeads ==
  SchemePrefixes \cup
  { <<>>, Str("MAILTO:"), Str("Tel:"), Str("HTTP://"), Str("httPS://"),
    Str("http:/"), Str("https:"), Str("mailto"), Str("tel"), Str("xtel:"),
    Str("ftp://") }

UrlPads == {<<>>, <<" ">>, <<"\n">>, <<"\t", " ">>}

UrlInputs ==
  { lead \o head \o body \o trail :
      lead \in UrlPads, head \in UrlHeads,
      body \in StringsUpTo({"x", ".", " "}, MaxBodyLen), trail \in UrlPads }

NoOpts == [theme |-> "undefined"]

\* Values typed into a field, by the kind of the field.
TextValues == {Str(" "), Str("a "), Str("<&")}
PhoneValues == {Str(" "), Str(" 1"), Str("'")}
EmailValues == {Str(" "), Str("a@b"), Str("\"@")}
UrlValues == {Str(" "), Str("x>"), Str("Http://x")}
LegalValues == {Str("\n "), Str("a\n b\n"), Str("<\n\n\t'")}

FieldValues(f) ==
  IF f \in {"officePhone", "mobilePhone"} THEN PhoneValues
  ELSE IF f = "emailAddress" THEN EmailValues
  ELSE IF f = "legal" THEN LegalValues
  ELSE IF f \in {"websiteUrl", "logoUrl", "logoDataUrl", "linkedin", "facebook",
                 "twitter", "instagram", "whatsapp"} THEN UrlValues
  ELSE TextValues

\* The form after fillDemo().
DemoFilled == [DEMO_DATA EXCEPT !.logoUrl = <<>>, !.logoDataUrl = DEMO_LOGO]

\* The records the caller starts from, and how many fields it may change.
BaseRecords == {DEFAULTS, DemoFilled}

MaxChanged(b) == IF b = DEFAULTS THEN MaxFields ELSE MaxDemoEdits

Changed(d, b) == Cardinality({f \in Fields : d[f] # b[f]})

\* What the caller may put in field f: any value of the field's kind in an
\* empty record; in the demo record it empties or blanks the field.
EditValues(b, f) ==
  IF b = DEFAULTS THEN FieldValues(f) \cup {<<>>} ELSE {<<>>, Str(" ")}

Themes == {"light", "dark", "undefined"}

(***************************************************************************)
(* Specification of a call of escapeHtml.                                  *)
(***************************************************************************)
InitEscapeHtml ==
  /\ pc = "call"
  /\ str \in EscapeInputs
  /\ out = <<>>
  /\ base = DEFAULTS /\ data = DEFAULTS /\ opts = NoOpts /\ html = <<>>
  /\ UiIdle
  /\ input = <<>> /\ preserve = TRUE /\ active = "upper"

CallEscapeHtml ==
  /\ pc = "call"
  /\ out' = escapeHtml(str)
  /\ pc' = "ret"
  /\ UNCHANGED <<base, str, data, opts, html, input, preserve, active>> /\ UNCHANGED uiVars

NextEscapeHtml == CallEscapeHtml

SpecEscapeHtml == InitEscapeHtml /\ [][NextEscapeHtml]_vars

(***************************************************************************)
(* Specification of a call of normalizeUrl.                                *)
(***************************************************************************)
InitNormalizeUrl ==
  /\ pc = "call"
  /\ str \in UrlInputs
  /\ out = <<>>
  /\ base = DEFAULTS /\ data = DEFAULTS /\ opts = NoOpts /\ html = <<>>
  /\ UiIdle
  /\ input = <<>> /\ preserve = TRUE /\ active = "upper"

CallNormalizeUrl ==
  /\ pc = "call"
  /\ out' = normalizeUrl(str)
  /\ pc' = "ret"
  /\ UNCHANGED <<base, str, data, opts, html, input, preserve, active>> /\ UNCHANGED uiVars

NextNormalizeUrl == CallNormalizeUrl

SpecNormalizeUrl == InitNormalizeUrl /\ [][NextNormalizeUrl]_vars

(***************************************************************************)
(* Specification of a call of buildSignatureHTML.                          *)
(***************************************************************************)
InitBuild ==
  /\ pc = "edit"
  /\ base \in BaseRecords
  /\ data = base
  /\ opts = NoOpts
  /\ html = <<>>
  /\ str = <<>> /\ out = <<>>
  /\ input = <<>> /\ preserve = TRUE /\ active = "upper"
  /\ UiIdle

\* The caller sets one field of the record it is going to pass.
SetField(f, v) ==
  /\ pc = "edit"
  /\ data' = [data EXCEPT ![f] = v]
  /\ Changed(data', base) <= MaxChanged(base)
  /\ UNCHANGED <<pc, base, str, out, opts, html, input, preserve, active>> /\ UNCHANGED uiVars

CallBuild(theme) ==
  /\ pc = "edit"
  /\ opts' = [theme |-> theme]
  /\ html' = buildSignatureHTML(data, opts')
  /\ pc' = "ret"
  /\ UNCHANGED <<base, str, out, data, input, preserve, active>> /\ UNCHANGED uiVars

NextBuild ==
  \/ \E f \in Fields : \E v \in EditValues(base, f) : SetField(f, v)
  \/ \E theme \in Themes : CallBuild(theme)

SpecBuild == InitBuild /\ [][NextBuild]_vars

(***************************************************************************)
(* What the claims are stated with.                                        *)
(***************************************************************************)
Elements(h) == {h[i] : i \in 1..Len(h)}

Count(h, t) == Cardinality({i \in 1..Len(h) : h[i] = t})

Positions(h, t) == SelectSeq([i \in 1..Len(h) |-> i], LAMBDA i : h[i] = t)

Contains(h, part) ==
  \E i \in 1..Len(h) - Len(part) + 1 : SubSeq(h, i, i + Len(part) - 1) = part

NonBlank(s) == \E i \in 1..Len(s) : s[i] \notin WhiteSpace

\* v is raw without its leading and trailing white space.
IsTrimOf(v, raw) ==
  \E i \in 1..Len(raw) + 1 : \E j \in 0..Len(raw) :
    /\ v = SubSeq(raw, i, j)
    /\ \A k \in 1..Len(raw) : (k < i \/ k > j) => raw[k] \in WhiteSpace
    /\ v # <<>> => (v[1] \notin WhiteSpace /\ v[Len(v)] \notin WhiteSpace)

EntityOf(ch) ==
  CASE ch = "&"  -> Str("&amp;")
    [] ch = "<"  -> Str("&lt;")
    [] ch = ">"  -> Str("&gt;")
    [] ch = "\"" -> Str("&quot;")
    [] ch = "'"  -> Str("&#039;")
    [] OTHER     -> <<ch>>

\* One pass over s, each character mapped to its entity.
RECURSIVE EscapedOnce(_)
EscapedOnce(s) ==
  IF s = <<>> THEN <<>>
  ELSE IF Len(s) = 1 THEN EntityOf(s[1])
  ELSE LET half == Len(s) \div 2
       IN  EscapedOnce(SubSeq(s, 1, half)) \o EscapedOnce(SubSeq(s, half + 1, Len(s)))

\* s between its first and its last character that is not white space.
Inked(s) ==
  LET ink == {i \in 1..Len(s) : s[i] \notin WhiteSpace}
  IN  IF ink = {} THEN <<>>
      ELSE SubSeq(s, CHOOSE i \in ink : \A k \in ink : i <= k,
                     CHOOSE j \in ink : \A k \in ink : k <= j)

Entities == {Str("&amp;"), Str("&lt;"), Str("&gt;"), Str("&quot;"), Str("&#039;")}

EntityAt(h, i) ==
  \E e \in Entities :
    i + Len(e) - 1 <= Len(h) /\ SubSeq(h, i, i + Len(e) - 1) = e

\* C1: after buildSignatureHTML returns, no element of the output is a bare
\* < > " or ' and every & opens one of the five entities: every field value
\* was escaped before it was embedded, in text nodes and attributes alike.
C1_NoUnescapedFieldValue ==
  pc = "ret" =>
    \A i \in 1..Len(html) :
      /\ html[i] \notin {"<", ">", "\"", "'"}
      /\ html[i] = "&" => EntityAt(html, i)

C1_Witness ==
  /\ pc = "ret"
  /\ data.websiteUrl = Str("x>")
  /\ data.companyName = Str("<&")
  /\ \E i \in 1..Len(html) - 3 : SubSeq(html, i, i + 3) = Str("&gt;")

\* C2: escapeHtml returns its input with each of & < > " ' replaced by its
\* entity, once, and every other character unchanged: the result is what one
\* pass over the input that maps each character to its entity gives.
C2_EscapeHtmlOnePass ==
  pc = "ret" => out = EscapedOnce(str)

C2_Witness ==
  /\ pc = "ret"
  /\ str = Str("&<'")
  /\ out = Str("&amp;&lt;&#039;")

\* C3: normalizeUrl returns "" when the trimmed input is empty, the trimmed
\* input when it starts with mailto:, tel:, http:// or https:// in any case,
\* and "https://" followed by the trimmed input otherwise.
C3_NormalizeUrlContract ==
  pc = "ret" =>
    \E v \in {SubSeq(str, i, j) : i \in 1..Len(str) + 1, j \in 0..Len(str)} :
      /\ IsTrimOf(v, str)
      /\ out = IF v = <<>> THEN <<>>
               ELSE IF \E n \in {4, 7, 8} :
                         /\ Len(v) >= n
                         /\ [i \in 1..n |-> LowerOf(v[i])] \in SchemePrefixes
                    THEN v
                    ELSE Str("https://") \o v

C3_Witness ==
  /\ pc = "ret"
  /\ str = Str(" HTTP://x.\n")
  /\ out = Str("HTTP://x.")

(***************************************************************************)
(* Reading the output back: its rows, icons, header and legal block.       *)
(***************************************************************************)
ContactFields ==
  <<"officePhone", "mobilePhone", "emailAddress", "websiteUrl", "address">>

\* The contact line a row holds, from the markup its cell starts with; j is
\* the position after the three tokens that open the cell.
RowKindAt(h, j) ==
  IF h[j] = "<a href=\"mailto:" THEN "emailAddress"
  ELSE IF h[j] = "<a href=\"" THEN "websiteUrl"
  ELSE IF h[j] # "<span style=\"color:" THEN "none"
  ELSE IF h[j + 2] = ";\">Office:</span> <a href=\"tel:" THEN "officePhone"
  ELSE IF h[j + 2] = ";\">Mobile:</span> <a href=\"tel:" THEN "mobilePhone"
  ELSE IF h[j + 2] = ";\">" /\ h[j + 3] # "</span>" THEN "address"
  ELSE "none"

RowKinds(h) ==
  LET at == Positions(h, RowTdOpen)
  IN  [k \in 1..Len(at) |-> RowKindAt(h, at[k] + 3)]

IconKeyOf(t) ==
  CHOOSE k \in Elements(SocialKeys) : t \in {SOCIAL_LIGHT[k], SOCIAL_DARK[k]}

AllIcons == {SOCIAL_LIGHT[k] : k \in Elements(SocialKeys)}
            \cup {SOCIAL_DARK[k] : k \in Elements(SocialKeys)}

IconKeys(h) ==
  LET icons == SelectSeq(h, LAMBDA t : t \in AllIcons)
  IN  [k \in 1..Len(icons) |-> IconKeyOf(icons[k])]

ContainerOpeners ==
  {TableOpen, PlainTdOpen, PaddedTdOpen, LogoTdOpen, StackTdOpen, "<tr>"}

ContainerClosers == {"</table>", "</td>", "</tr>"}

EmptyContainerAt(h, i) ==
  i < Len(h) /\ h[i] \in ContainerOpeners /\ h[i + 1] \in ContainerClosers

\* What every output starts with, up to the header cell, and where the
\* content of that cell starts.
OutputStart == <<TableOpen, "<tr>", PlainTdOpen, TableOpen, "<tr>", PlainTdOpen>>

HeaderStart == Len(OutputStart) + 1

\* The text of the legal cell: from after its three opening tokens to the
\* six closing tokens the output ends with.
LegalCellText(h) ==
  LET at == Positions(h, LegalTdOpen)
  IN  SubSeq(h, at[1] + 3, Len(h) - 6)

\* C4 (as stated): every empty optional field leaves its row or block out of
\* the output and no empty row or empty container is left behind; a record
\* with only firstName, lastName and emailAddress gives a name header, one
\* contact row (the mailto: link), no logo, no social row and no legal block.
C4_NoEmptyArtifacts ==
  pc = "ret" =>
    /\ \A k \in 1..Len(ContactFields) :
         ~NonBlank(data[ContactFields[k]])
           => ContactFields[k] \notin Elements(RowKinds(html))
    /\ \A k \in 1..Len(SocialKeys) :
         ~NonBlank(data[SocialKeys[k]]) => SocialKeys[k] \notin Elements(IconKeys(html))
    /\ (~NonBlank(data.logoUrl) /\ ~NonBlank(data.logoDataUrl))
         => ImgLogoOpen \notin Elements(html)
    /\ ~NonBlank(data.legal) => LegalTdOpen \notin Elements(html)
    /\ \A i \in 1..Len(html) : ~EmptyContainerAt(html, i)
    /\ (\A f \in Fields :
          NonBlank(data[f]) <=> f \in {"firstName", "lastName", "emailAddress"})
         => /\ Count(html, NameDivOpen) = 1
            /\ RowKinds(html) = <<"emailAddress">>
            /\ ImgLogoOpen \notin Elements(html)
            /\ IconKeys(html) = <<>>
            /\ LegalTdOpen \notin Elements(html)

\* C5: a contact line is a row exactly when its field is non-empty after
\* trimming, so there are as many rows as such fields, and the rows come in
\* the order office, mobile, email, website, address.
C5_ContactRows ==
  pc = "ret" =>
    /\ RowKinds(html) = SelectSeq(ContactFields, LAMBDA f : NonBlank(data[f]))
    /\ Count(html, RowTdOpen)
         = Cardinality({k \in 1..Len(ContactFields) : NonBlank(data[ContactFields[k]])})
    /\ \A i \in 1..Len(html) : html[i] = RowTdOpen => html[i - 1] = "<tr>"

C5_Witness ==
  /\ pc = "ret"
  /\ base = DemoFilled
  /\ data.mobilePhone = Str(" ")
  /\ RowKinds(html) = <<"officePhone", "emailAddress", "websiteUrl", "address">>

\* C6: a platform's icon link is in the output exactly when its URL field is
\* non-empty after normalizeUrl; the icons come in the order LinkedIn,
\* Facebook, X/Twitter, Instagram, WhatsApp; and there is no social row when no
\* platform has a URL.
C6_SocialIcons ==
  pc = "ret" =>
    LET present == SelectSeq(SocialKeys, LAMBDA k : NonBlank(data[k]))
    IN  /\ \A k \in Elements(SocialKeys) : NonBlank(data[k]) <=> normalizeUrl(data[k]) # <<>>
        /\ IconKeys(html) = present
        /\ Count(html, SocialCellOpen) = Len(present)
        /\ Count(html, SocialCellClose) = Len(present)
        /\ Count(html, PaddedTdOpen) = IF present = <<>> THEN 1 ELSE 2

C6_Witness ==
  /\ pc = "ret"
  /\ base = DemoFilled
  /\ data.facebook = Str(" ")
  /\ IconKeys(html) = <<"linkedin", "twitter", "instagram", "whatsapp">>

\* C7: the logo source is the trimmed logoDataUrl when that is non-empty,
\* else normalizeUrl(logoUrl) when the trimmed logoUrl is non-empty; with a
\* logo the header is a two-column table, the logo image in its left cell;
\* with none there is no image and no table, and the name, job and company
\* lines stand directly in the header cell.
C7_LogoAndHeader ==
  pc = "ret" =>
    LET src == IF NonBlank(data.logoDataUrl) THEN Inked(data.logoDataUrl)
               ELSE IF NonBlank(data.logoUrl) THEN normalizeUrl(data.logoUrl)
               ELSE <<>>
        esc == EscapedOnce(src)
        p   == HeaderStart
    IN  /\ SubSeq(html, 1, p - 1) = OutputStart
        /\ src = <<>> =>
             /\ ImgLogoOpen \notin Elements(html)
             /\ LogoTdOpen \notin Elements(html)
             /\ StackTdOpen \notin Elements(html)
             /\ html[p] \in {NameDivOpen, LineDivOpen, "</td>"}
        /\ src # <<>> =>
             /\ SubSeq(html, p, p + 3) = <<TableOpen, "<tr>", LogoTdOpen, ImgLogoOpen>>
             /\ SubSeq(html, p + 4, p + 3 + Len(esc)) = esc
             /\ SubSeq(html, p + 4 + Len(esc), p + 6 + Len(esc))
                  = <<ImgLogoClose, "</td>", StackTdOpen>>
             /\ Count(html, ImgLogoOpen) = 1

C7_Witness ==
  /\ pc = "ret"
  /\ data.logoDataUrl = Str("x>")
  /\ data.logoUrl = Str("Http://x")
  /\ SubSeq(html, HeaderStart + 3, HeaderStart + 8) = <<ImgLogoOpen>> \o Str("x&gt;")

\* C8 (as stated): fullName is the non-empty-after-trimming parts of
\* firstName and lastName joined by one space; jobLine is jobTitle and
\* department joined by " (bullet) " when both are non-empty after trimming,
\* and otherwise the one that is, without a separator, or empty.
C8_NameAndJobLine ==
  pc = "ret" =>
    LET kept(parts) == SelectSeq(parts, NonBlank)
        name == Trim(Join(kept(<<data.firstName, data.lastName>>), <<" ">>))
        job  == Trim(Join(kept(<<data.jobTitle, data.department>>), <<" ", Bullet, " ">>))
        theme == ThemeOf(opts)
    IN  /\ fullName(data) = name
        /\ jobLine(data) = job
        /\ (~NonBlank(data.jobTitle) \/ ~NonBlank(data.department))
             => Bullet \notin Elements(jobLine(data))
        /\ name # <<>> =>
             Contains(html, <<NameDivOpen, black(theme), ";\">">> \o EscapedOnce(name) \o <<"</div>">>)
        /\ job # <<>> =>
             Contains(html, <<LineDivOpen, gray600(theme), ";\">">> \o EscapedOnce(job) \o <<"</div>">>)

\* C9 (as stated): the legal block is rendered exactly when the legal text
\* is non-empty; every newline of the escaped legal text becomes a line
\* break and all other white space of the legal text is kept as it is.
C9_LegalTextAsGiven ==
  pc = "ret" =>
    /\ LegalTdOpen \in Elements(html) <=> NonBlank(data.legal)
    /\ NonBlank(data.legal)
         => LegalCellText(html) = Replace(EscapedOnce(data.legal), "\n", <<"<br/>">>)

\* C9 (amended): the legal block is rendered exactly when the legal text is
\* non-empty after trimming; every newline of the escaped trimmed text
\* becomes a line break, every other element of it is kept as it is, and the
\* leading and trailing white space of the field is dropped.
C9_LegalTextTrimmed ==
  pc = "ret" =>
    /\ Count(html, LegalTdOpen) = IF NonBlank(data.legal) THEN 1 ELSE 0
    /\ NonBlank(data.legal) =>
         LET e == EscapedOnce(Inked(data.legal))
             t == LegalCellText(html)
         IN  /\ Len(t) = Len(e)
             /\ \A i \in 1..Len(e) : t[i] = IF e[i] = "\n" THEN "<br/>" ELSE e[i]

C9_Witness ==
  /\ pc = "ret"
  /\ data.legal = Str("a\n b\n")
  /\ LegalCellText(html) = <<"a", "<br/>", " ", "b">>

\* C10: light and dark give the same blocks in the same order: the dark
\* output is the light output with each of the four text colours and each
\* icon replaced by its dark variant, nothing else changed; and a theme
\* other than dark gives the light output.
DarkOf(t) ==
  CASE t = "#111827" -> "#f8fafc"
    [] t = "#4b5563" -> "#e5e7eb"
    [] t = "#6b7280" -> "#cbd5e1"
    [] t = "#9ca3af" -> "#94a3b8"
    [] t \in {SOCIAL_LIGHT[k] : k \in Elements(SocialKeys)} -> SOCIAL_DARK[IconKeyOf(t)]
    [] OTHER -> t

C10_ThemeChangesOnlyColours ==
  pc = "ret" =>
    IF opts.theme = "dark"
    THEN LET light == buildSignatureHTML(data, [theme |-> "light"])
         IN  html = [i \in 1..Len(light) |-> DarkOf(light[i])]
    ELSE /\ buildSignatureHTML(data, [theme |-> "dark"])
              = [i \in 1..Len(html) |-> DarkOf(html[i])]
         /\ opts.theme # "light" => html = buildSignatureHTML(data, [theme |-> "light"])

C10_Witness ==
  /\ pc = "ret"
  /\ opts.theme = "undefined"
  /\ data = DemoFilled
  /\ "#4b5563" \in Elements(html)
  /\ SOCIAL_LIGHT.twitter \in Elements(html)

(***************************************************************************)
(* The case converter.  Characters and their Unicode properties.           *)
(*                                                                         *)
(* A character outside ASCII is written as the name of its code point.     *)
(* There is one for each way a character can behave under \p{L}, \p{N}     *)
(* and the case mappings of toLocaleUpperCase / toLocaleLowerCase (in a    *)
(* locale without tailoring): a letter without case, a letter whose upper  *)
(* case is two characters, a letter whose lower case is a letter and a     *)
(* combining mark, and a symbol that is not a letter but has a case.       *)
(***************************************************************************)
LowerAlpha == Str("abcdefghijklmnopqrstuvwxyz")
UpperAlpha == Str("ABCDEFGHIJKLMNOPQRSTUVWXYZ")
Digits == {"0", "1", "2", "3", "4", "5", "6", "7", "8", "9"}

SharpS == "U+00DF"          \* LATIN SMALL LETTER SHARP S, Ll, upper case "SS"
Han == "U+4E2D"             \* a CJK ideograph, Lo, no case
DottedI == "U+0130"         \* LATIN CAPITAL LETTER I WITH DOT ABOVE, Lu
DotAbove == "U+0307"        \* COMBINING DOT ABOVE, Mn
CircledA == "U+24B6"        \* CIRCLED LATIN CAPITAL LETTER A, So
CircledSmallA == "U+24D0"   \* CIRCLED LATIN SMALL LETTER A, So

IndexIn(alpha, ch) == CHOOSE i \in 1..Len(alpha) : alpha[i] = ch

LowerLetters == {LowerAlpha[i] : i \in 1..Len(LowerAlpha)}
UpperLetters == {UpperAlpha[i] : i \in 1..Len(UpperAlpha)}

\* the one-to-one case mappings of the ASCII letters
UpperOfLower == [ch \in LowerLetters |-> UpperAlpha[IndexIn(LowerAlpha, ch)]]
LowerOfUpper == [ch \in UpperLetters |-> LowerAlpha[IndexIn(UpperAlpha, ch)]]

\* /\p{L}/u.test(ch)
IsL(ch) == ch \in LowerLetters \cup UpperLetters \cup {SharpS, Han, DottedI}

\* /\p{N}/u.test(ch)
IsN(ch) == ch \in Digits

UpperCaseSwapping(ch) ==
  IF ch \in LowerLetters THEN <<UpperOfLower[ch]>>
  ELSE IF ch \in UpperLetters THEN <<LowerOfUpper[ch]>>
  ELSE <<ch>>

\* ch.toLocaleUpperCase() and ch.toLocaleLowerCase() of one character
UpperCaseOf(ch) ==
  IF ch \in LowerLetters THEN <<UpperOfLower[ch]>>
  ELSE IF ch = SharpS THEN <<"S", "S">>
  ELSE IF ch = CircledSmallA THEN <<CircledA>>
  ELSE <<ch>>

LowerCaseOf(ch) ==
  IF ch \in UpperLetters THEN <<LowerOfUpper[ch]>>
  ELSE IF ch = DottedI THEN <<"i", DotAbove>>
  ELSE IF ch = CircledA THEN <<CircledSmallA>>
  ELSE <<ch>>

RECURSIVE Flatten(_)
Flatten(parts) ==
  IF parts = <<>> THEN <<>> ELSE Head(parts) \o Flatten(Tail(parts))

toLocaleUpperCase(s) == Flatten([i \in 1..Len(s) |-> UpperCaseOf(s[i])])

toLocaleLowerCase(s) == Flatten([i \in 1..Len(s) |-> LowerCaseOf(s[i])])

(***************************************************************************)
(* splitWords and preserveWordTransform.                                   *)
(***************************************************************************)
IsAlnum(ch) == IsL(ch) \/ IsN(ch)

\* the length of the longest prefix of s made of letters and numbers
AlnumPrefixLen(s) ==
  CHOOSE n \in 0..Len(s) :
    /\ \A i \in 1..n : IsAlnum(s[i])
    /\ n = Len(s) \/ ~IsAlnum(s[n + 1])

\* the length of the longest prefix of s with no letter and no number
SeparatorPrefixLen(s) ==
  CHOOSE n \in 0..Len(s) :
    /\ \A i \in 1..n : ~IsAlnum(s[i])
    /\ n = Len(s) \/ IsAlnum(s[n + 1])

\* s.split(/[^\p{L}\p{N}]+/u): the pieces between the separator runs, the
\* empty pieces before a leading and after a trailing run included.
RECURSIVE Split(_)
Split(s) ==
  LET n == AlnumPrefixLen(s)
      rest == SubSeq(s, n + 1, Len(s))
  IN  IF rest = <<>> THEN <<s>>
      ELSE <<SubSeq(s, 1, n)>>
             \o Split(SubSeq(rest, SeparatorPrefixLen(rest) + 1, Len(rest)))

SplitWordsNoFilter(text) == Split(Trim(text))

splitWords(text) == FilterBoolean(Split(Trim(text)))

\* The matches of /\p{L}[\p{L}\p{N}]*/gu in s and the characters between
\* them, in order: s cut into word tokens and single other characters.
RECURSIVE Segments(_)
Segments(s) ==
  IF s = <<>> THEN <<>>
  ELSE IF IsL(s[1])
       THEN LET n == AlnumPrefixLen(s)
            IN  <<SubSeq(s, 1, n)>> \o Segments(SubSeq(s, n + 1, Len(s)))
       ELSE <<(<<s[1]>>)>> \o Segments(Tail(s))

IsWord(seg) == IsL(seg[1])

\* the matches themselves: what the replacer callback is called with
Words(s) == {seg \in {Segments(s)[i] : i \in 1..Len(Segments(s))} : IsWord(seg)}

\* s.replace(/\p{L}[\p{L}\p{N}]*/gu, fn), fn a function on the matches
ReplaceWords(s, fn) ==
  LET segs == Segments(s)
  IN  Flatten([i \in 1..Len(segs) |->
                 IF IsWord(segs[i]) THEN fn[segs[i]] ELSE segs[i]])

PreserveWordTransformTrimmed(s, fn) == ReplaceWords(Trim(s), fn)

preserveWordTransform(s, fn) == ReplaceWords(s, fn)

(***************************************************************************)
(* The transforms.                                                         *)
(***************************************************************************)
CapitalizedKeepRest(w) ==
  IF w = <<>> THEN <<>> ELSE UpperCaseOf(w[1]) \o Tail(w)

\* chars = Array.from(w.toLocaleLowerCase()); chars[0] upper-cased; joined
Capitalized(w) ==
  LET chars == toLocaleLowerCase(w)
  IN  IF chars = <<>> THEN <<>>
      ELSE UpperCaseOf(chars[1]) \o Tail(chars)

toTitleCase(text) ==
  ReplaceWords(text, [w \in Words(text) |-> Capitalized(w)])

\* the loop of toSentenceCase from its position in lower, with capNext
RECURSIVE SentenceLoop(_, _)
SentenceLoop(lower, capNext) ==
  IF lower = <<>> THEN <<>>
  ELSE LET ch == Head(lower)
       IN  IF capNext /\ IsL(ch)
           THEN UpperCaseOf(ch) \o SentenceLoop(Tail(lower), FALSE)
           ELSE <<ch>> \o SentenceLoop(Tail(lower),
                                       capNext \/ ch \in {".", "!", "?", "\n"})

ToSentenceCaseNoLower(text) == SentenceLoop(text, TRUE)

toSentenceCase(text) == SentenceLoop(toLocaleLowerCase(text), TRUE)

ToggleCharAnyCased(ch) ==
  IF <<ch>> = UpperCaseOf(ch) THEN LowerCaseOf(ch) ELSE UpperCaseOf(ch)

ToggleChar(ch) ==
  IF ~IsL(ch) THEN <<ch>>
  ELSE IF <<ch>> = UpperCaseOf(ch) THEN LowerCaseOf(ch) ELSE UpperCaseOf(ch)

toggleCase(text) == Flatten([i \in 1..Len(text) |-> ToggleChar(text[i])])

RECURSIVE AlternatingLoopCountingAll(_, _)
AlternatingLoopCountingAll(text, flip) ==
  IF text = <<>> THEN <<>>
  ELSE LET ch == Head(text)
       IN  (IF ~IsL(ch) THEN <<ch>>
            ELSE IF flip THEN UpperCaseOf(ch) ELSE LowerCaseOf(ch))
             \o AlternatingLoopCountingAll(Tail(text), ~flip)

\* the loop of alternatingCase from its position in text, with flip
RECURSIVE AlternatingLoop(_, _)
AlternatingLoop(text, flip) ==
  IF text = <<>> THEN <<>>
  ELSE LET ch == Head(text)
       IN  IF ~IsL(ch) THEN <<ch>> \o AlternatingLoop(Tail(text), flip)
           ELSE (IF flip THEN UpperCaseOf(ch) ELSE LowerCaseOf(ch))
                  \o AlternatingLoop(Tail(text), ~flip)

AlternatingCaseCountingAll(text) == AlternatingLoopCountingAll(text, FALSE)

alternatingCase(text) == AlternatingLoop(text, FALSE)

toCamelCase(text) ==
  LET words == splitWords(text)
  IN  IF words = <<>> THEN <<>>
      ELSE toLocaleLowerCase(words[1])
             \o Flatten([i \in 1..(Len(words) - 1) |-> Capitalized(words[i + 1])])

toPascalCase(text) ==
  LET words == splitWords(text)
  IN  Flatten([i \in 1..Len(words) |-> Capitalized(words[i])])

ToDelimitedTerminated(text, d) ==
  LET pieces == Split(Trim(text))
  IN  Flatten([i \in 1..Len(pieces) |-> toLocaleLowerCase(pieces[i]) \o <<d>>])

ToDelimitedKeepCase(text, d) == Join(splitWords(text), <<d>>)

toDelimited(text, d) ==
  LET words == splitWords(text)
  IN  Join([i \in 1..Len(words) |-> toLocaleLowerCase(words[i])], <<d>>)

ToSpaceCaseLowered(text) ==
  LET words == splitWords(text)
  IN  Join([i \in 1..Len(words) |-> toLocaleLowerCase(words[i])], <<" ">>)

toSpaceCase(text) == Join(splitWords(text), <<" ">>)

ActionKeys ==
  {"upper", "lower", "title", "sentence", "toggle", "alternating",
   "camel", "pascal", "snake", "kebab", "dot", "space"}

computeOutput(text, preserveFlag, key) ==
  CASE key = "upper" ->
         IF preserveFlag
         THEN preserveWordTransform(text, [w \in Words(text) |-> toLocaleUpperCase(w)])
         ELSE toLocaleUpperCase(Trim(text))
    [] key = "lower" ->
         IF preserveFlag
         THEN preserveWordTransform(text, [w \in Words(text) |-> toLocaleLowerCase(w)])
         ELSE toLocaleLowerCase(Trim(text))
    [] key = "title" ->
         IF preserveFlag THEN toTitleCase(text) ELSE toTitleCase(Trim(text))
    [] key = "sentence" ->
         IF preserveFlag THEN toSentenceCase(text) ELSE toSentenceCase(Trim(text))
    [] key = "toggle" ->
         IF preserveFlag THEN toggleCase(text) ELSE toggleCase(Trim(text))
    [] key = "alternating" ->
         IF preserveFlag THEN alternatingCase(text) ELSE alternatingCase(Trim(text))
    [] key = "camel" -> toCamelCase(text)
    [] key = "pascal" -> toPascalCase(text)
    [] key = "snake" -> toDelimited(text, "_")
    [] key = "kebab" -> toDelimited(text, "-")
    [] key = "dot" -> toDelimited(text, ".")
    [] key = "space" -> toSpaceCase(text)
    [] OTHER -> text

(***************************************************************************)
(* Specification of a call of computeOutput.                               *)
(***************************************************************************)
MaxTextLen == 3

CaseAlphabet ==
  {"a", "B", "1", " ", "\n", ".", "_", SharpS, Han, DottedI, CircledA}

\* the texts of runSelfTests
SelfTestTexts ==
  { Str("Hi, Bob!"), Str("  Hi  "), Str("hello world"),
    Str("HELLO. HOW ARE YOU?\nOK!"), Str("AbC"), Str("ab cd"),
    Str("Hello, world!") }

ComputeInputs == StringsUpTo(CaseAlphabet, MaxTextLen) \cup SelfTestTexts

InitCompute ==
  /\ pc = "call"
  /\ input \in ComputeInputs
  /\ preserve \in BOOLEAN
  /\ active \in ActionKeys
  /\ out = <<>>
  /\ str = <<>>
  /\ base = DEFAULTS /\ data = DEFAULTS /\ opts = NoOpts /\ html = <<>>
  /\ UiIdle

CallComputeOutput ==
  /\ pc = "call"
  /\ out' = computeOutput(input, preserve, active)
  /\ pc' = "ret"
  /\ UNCHANGED <<base, str, data, opts, html, input, preserve, active>> /\ UNCHANGED uiVars

NextCompute == CallComputeOutput

SpecCompute == InitCompute /\ [][NextCompute]_vars


(***************************************************************************)
(* What the claims about the case converter are stated with.               *)
(***************************************************************************)
\* C11: computeOutput("", preserve, key) is the empty string for each of the
\* twelve transform keys and for both values of the preserve flag.
C11_EmptyInputEmptyOutput ==
  (pc = "ret" /\ input = <<>>) => out = <<>>

C11_Witness ==
  /\ pc = "ret" /\ input = <<>> /\ out = <<>>
  /\ active = "snake" /\ ~preserve

\* C12: with the preserve flag on, upper and lower are idempotent: applying
\* the transform to its own output returns that output.
C12_UpperLowerIdempotent ==
  (pc = "ret" /\ preserve /\ active \in {"upper", "lower"})
    => computeOutput(out, TRUE, active) = out

C12_Witness ==
  /\ pc = "ret" /\ preserve /\ active = "upper"
  /\ SharpS \in Elements(input) /\ "a" \in Elements(input)
  /\ out # input
  /\ computeOutput(out, TRUE, active) = out

\* Position i of s lies in a word token: a letter starts the token at or
\* before i and only letters and numbers lie between the two.
InWord(s, i) ==
  \E j \in 1..i : IsL(s[j]) /\ \A k \in j..i : IsAlnum(s[k])

CaseMapOf(key, ch) ==
  IF key = "upper" THEN UpperCaseOf(ch) ELSE LowerCaseOf(ch)

\* What upper / lower with the preserve flag make of the character at i.
PreservedImage(s, i, key) ==
  IF InWord(s, i) THEN CaseMapOf(key, s[i]) ELSE <<s[i]>>

\* The number of output characters the first i - 1 input characters give.
RECURSIVE PreservedOffset(_, _, _)
PreservedOffset(s, i, key) ==
  IF i <= 1 THEN 0
  ELSE PreservedOffset(s, i - 1, key) + Len(PreservedImage(s, i - 1, key))

\* C13 as stated: with the preserve flag on, upper and lower leave every
\* character that is no letter and no digit (separator, punctuation, white
\* space, leading and trailing included) unchanged at the same position.
C13_SeparatorsSamePosition ==
  (pc = "ret" /\ preserve /\ active \in {"upper", "lower"})
    => \A i \in 1..Len(input) :
         ~IsAlnum(input[i]) => (i <= Len(out) /\ out[i] = input[i])

\* C13 as the code has it: with the preserve flag on, upper and lower replace
\* each character of a word token by its case mapping and copy every other
\* character; a copied character keeps its order and stands as many places
\* to the right as the word characters before it grew (sharp s -> SS).
C13_SeparatorsKeptInOrder ==
  (pc = "ret" /\ preserve /\ active \in {"upper", "lower"})
    => /\ Len(out) = PreservedOffset(input, Len(input) + 1, active)
       /\ \A i \in 1..Len(input) :
            LET at == PreservedOffset(input, i, active)
                image == PreservedImage(input, i, active)
            IN  /\ SubSeq(out, at + 1, at + Len(image)) = image
                /\ ~IsAlnum(input[i]) => out[at + 1] = input[i]
                /\ (~IsAlnum(input[i])
                      /\ \A j \in 1..(i - 1) :
                           Len(PreservedImage(input, j, active)) = 1)
                     => out[i] = input[i]

C13_Witness ==
  /\ pc = "ret" /\ preserve /\ active = "upper"
  /\ Len(input) = 3 /\ input[1] = " " /\ input[2] = SharpS /\ input[3] = "."
  /\ out = <<" ", "S", "S", ".">>

\* C14: with the preserve flag off, upper and lower return the trimmed input
\* case-mapped as a whole: every character of the trimmed input, in a word
\* or not, is replaced by its upper-case (lower-case) mapping, and the
\* result has no leading and no trailing white space.
C14_WholeTrimmedCaseMapped ==
  (pc = "ret" /\ ~preserve /\ active \in {"upper", "lower"})
    => LET trimmed == Inked(input)
       IN  /\ out = Flatten([i \in 1..Len(trimmed) |-> CaseMapOf(active, trimmed[i])])
           /\ out # <<>> => (out[1] \notin WhiteSpace /\ out[Len(out)] \notin WhiteSpace)

C14_Witness ==
  /\ pc = "ret" /\ ~preserve /\ active = "lower"
  /\ Len(input) = 3 /\ input[1] \in WhiteSpace /\ input[3] \in WhiteSpace
  /\ out # <<>> /\ out # Inked(input)

\* The text a case transform works on: the input, trimmed when the preserve
\* flag is off.
Subject == IF preserve THEN input ELSE Inked(input)

\* Position i of s is the first character of a word token.
StartsWord(s, i) == IsL(s[i]) /\ (i = 1 \/ ~InWord(s, i - 1))

IsUpperCased(ch) == UpperCaseOf(ch) = <<ch>>

IsLowerCased(ch) == LowerCaseOf(ch) = <<ch>>

\* Every case mapping of every character of s is one character long.
LengthPreserving(s) ==
  \A i \in 1..Len(s) : Len(UpperCaseOf(s[i])) = 1 /\ Len(LowerCaseOf(s[i])) = 1

\* Every word token of s is an upper-cased letter followed only by
\* lower-cased letters and digits.
TitleShaped(s) ==
  \A i \in 1..Len(s) :
    InWord(s, i) => IF StartsWord(s, i) THEN IsUpperCased(s[i])
                                        ELSE IsLowerCased(s[i])

\* What title makes of the character at i.
TitleImage(s, i) ==
  IF ~InWord(s, i) THEN <<s[i]>>
  ELSE IF StartsWord(s, i)
       THEN UpperCaseOf(LowerCaseOf(s[i])[1]) \o Tail(LowerCaseOf(s[i]))
       ELSE LowerCaseOf(s[i])

\* C15 as stated: title leaves the characters outside word tokens unchanged
\* and in the output every word token is an upper-case first letter
\* followed only by lower-case letters and digits.
C15_TitleTokensShaped ==
  (pc = "ret" /\ active = "title")
    => /\ TitleShaped(out)
       /\ preserve => \A i \in 1..Len(input) :
                         ~IsAlnum(input[i]) => input[i] \in Elements(out)

\* C15 as the code has it: title replaces every character of a word token by
\* its lower-case mapping and then the first character of the lower-cased
\* token by its upper-case mapping, and copies every other character; the
\* output tokens have the stated shape when all the case mappings involved
\* are one character long.
C15_TitleLowerThenUpperFirst ==
  (pc = "ret" /\ active = "title")
    => /\ out = Flatten([i \in 1..Len(Subject) |-> TitleImage(Subject, i)])
       /\ LengthPreserving(Subject) => TitleShaped(out)

C15_Witness ==
  /\ pc = "ret" /\ active = "title" /\ preserve
  /\ Len(input) = 3 /\ input[1] = SharpS /\ input[2] = "B" /\ input[3] = " "
  /\ out = <<"S", "S", "b", " ">>

SentenceEnds == {".", "!", "?", "\n"}

\* The letter at i is the first letter of s, or the first letter after a
\* sentence end (only characters that are no letters lie between the two).
StartsSentence(s, i) ==
  /\ IsL(s[i])
  /\ \/ \A j \in 1..(i - 1) : ~IsL(s[j])
     \/ \E t \in 1..(i - 1) :
          s[t] \in SentenceEnds /\ \A j \in (t + 1)..(i - 1) : ~IsL(s[j])

\* The lower-case mapping of ch with its first character upper-cased.
UpperFirstOfLower(ch) ==
  UpperCaseOf(LowerCaseOf(ch)[1]) \o Tail(LowerCaseOf(ch))

\* C16 as stated: sentence upper-cases the first letter of the string and
\* the first letter after each . ! ? or newline, lower-cases every other
\* letter, and leaves every character that is not a letter unchanged.
C16_SentenceNonLettersUnchanged ==
  (pc = "ret" /\ active = "sentence")
    => out = Flatten([i \in 1..Len(Subject) |->
                       IF StartsSentence(Subject, i) THEN UpperFirstOfLower(Subject[i])
                       ELSE IF IsL(Subject[i]) THEN LowerCaseOf(Subject[i])
                       ELSE <<Subject[i]>>])

\* C16 as the code has it: sentence lower-cases the entire string, the
\* characters that are not letters included, and then upper-cases the first
\* letter of the string and the first letter after each . ! ? or newline.
C16_SentenceLowerThenCapitals ==
  (pc = "ret" /\ active = "sentence")
    => out = Flatten([i \in 1..Len(Subject) |->
                       IF StartsSentence(Subject, i) THEN UpperFirstOfLower(Subject[i])
                       ELSE LowerCaseOf(Subject[i])])

C16_Witness ==
  /\ pc = "ret" /\ active = "sentence" /\ preserve
  /\ Len(input) = 3 /\ input[1] = CircledA /\ input[2] = "\n" /\ input[3] = "a"
  /\ out = <<CircledSmallA, "\n", "A">>

\* The letter ch with its case inverted, another character as it is.
Inverted(ch) ==
  IF ~IsL(ch) THEN <<ch>>
  ELSE IF IsUpperCased(ch) THEN LowerCaseOf(ch) ELSE UpperCaseOf(ch)

\* C17 as stated: toggle inverts the case of every letter and copies every
\* other character, so the output has the length of its input and the
\* same characters that are not letters at the same positions.
C17_ToggleSameLength ==
  (pc = "ret" /\ active = "toggle")
    => /\ Len(out) = Len(Subject)
       /\ \A i \in 1..Len(Subject) :
            ~IsL(Subject[i]) => out[i] = Subject[i]

\* C17 as the code has it: toggle replaces every letter by its case mapping
\* of the other case, which can be longer than the letter, and copies every
\* other character; length and positions are kept when the mappings of
\* the letters are one character long.
C17_ToggleInvertsLetters ==
  (pc = "ret" /\ active = "toggle")
    => /\ out = Flatten([i \in 1..Len(Subject) |-> Inverted(Subject[i])])
       /\ LengthPreserving(Subject)
            => /\ Len(out) = Len(Subject)
               /\ \A i \in 1..Len(Subject) :
                    ~IsL(Subject[i]) => out[i] = Subject[i]

C17_Witness ==
  /\ pc = "ret" /\ active = "toggle" /\ preserve
  /\ Len(input) = 3 /\ input[1] = "a" /\ input[2] = SharpS /\ input[3] = "."
  /\ out = <<"A", "S", "S", ".">>

\* The number of letters among the first i characters of s.
LetterRank(s, i) == Cardinality({j \in 1..i : IsL(s[j])})

\* C18: alternating gives each letter the case of its rank among the letters
\* of the whole string, lower case for the 1st, 3rd, 5th ... letter and
\* upper case for the 2nd, 4th, 6th ..., whatever its original case; the
\* other characters are copied, do not count, and no word or line boundary
\* restarts the count.
C18_AlternatingByLetterRank ==
  (pc = "ret" /\ active = "alternating")
    => out = Flatten([i \in 1..Len(Subject) |->
                       IF ~IsL(Subject[i]) THEN <<Subject[i]>>
                       ELSE IF LetterRank(Subject, i) % 2 = 1
                            THEN LowerCaseOf(Subject[i])
                            ELSE UpperCaseOf(Subject[i])])

C18_Witness ==
  /\ pc = "ret" /\ active = "alternating" /\ preserve
  /\ Len(input) = 3 /\ input[1] = "B" /\ input[2] = "\n" /\ input[3] = "a"
  /\ out = <<"b", "\n", "A">>

\* The tokens of s: its maximal runs of letters and numbers, in order.
TokenStarts(s) ==
  SelectSeq([i \in 1..Len(s) |-> i],
            LAMBDA i : IsAlnum(s[i]) /\ (i = 1 \/ ~IsAlnum(s[i - 1])))

TokenEnd(s, i) ==
  CHOOSE e \in i..Len(s) :
    /\ \A k \in i..e : IsAlnum(s[k])
    /\ e = Len(s) \/ ~IsAlnum(s[e + 1])

Tokens(s) ==
  [k \in 1..Len(TokenStarts(s)) |->
     SubSeq(s, TokenStarts(s)[k], TokenEnd(s, TokenStarts(s)[k]))]

LowerCased(w) == Flatten([j \in 1..Len(w) |-> LowerCaseOf(w[j])])

\* The token w lower-cased, then its first character upper-cased.
LowerThenCapital(w) ==
  UpperCaseOf(LowerCased(w)[1]) \o Tail(LowerCased(w))

AllAlnum(s) == \A i \in 1..Len(s) : IsAlnum(s[i])

DelimiterOf(key) ==
  CASE key = "snake" -> "_" [] key = "kebab" -> "-" [] key = "dot" -> "."

\* C20: snake, kebab and dot, whatever the preserve flag, join the
\* lower-cased tokens of the input (its maximal runs of letters and numbers)
\* with exactly one '_', '-' or '.': the output does not start or end with
\* the delimiter, has no two adjacent delimiters and no upper-case letter.
C20_DelimitedTokens ==
  (pc = "ret" /\ active \in {"snake", "kebab", "dot"})
    => LET d == DelimiterOf(active)
           tokens == Tokens(input)
       IN  /\ out = Join([k \in 1..Len(tokens) |-> LowerCased(tokens[k])], <<d>>)
           /\ out = computeOutput(input, ~preserve, active)
           /\ Count(out, d) = IF tokens = <<>> THEN 0 ELSE Len(tokens) - 1
           /\ out # <<>> => (out[1] # d /\ out[Len(out)] # d)
           /\ \A i \in 1..(Len(out) - 1) : ~(out[i] = d /\ out[i + 1] = d)
           /\ \A i \in 1..Len(out) : IsL(out[i]) => IsLowerCased(out[i])

C20_Witness ==
  /\ pc = "ret" /\ active = "snake" /\ ~preserve
  /\ input = Str("Hello, world!")
  /\ out = Str("hello_world")

\* C21: space joins the tokens of the input with a single space and keeps
\* the casing of each token (it does not lower-case them): "Hello, world!"
\* becomes "Hello world", and the output has no leading, trailing or
\* doubled space.
C21_SpaceKeepsCasing ==
  (pc = "ret" /\ active = "space")
    => /\ out = Join(Tokens(input), <<" ">>)
       /\ out # <<>> => (out[1] # " " /\ out[Len(out)] # " ")
       /\ \A i \in 1..(Len(out) - 1) : ~(out[i] = " " /\ out[i + 1] = " ")
       /\ input = Str("Hello, world!") => out = Str("Hello world")

C21_Witness ==
  /\ pc = "ret" /\ active = "space"
  /\ Len(input) = 3 /\ input[1] = "B" /\ input[2] = "_" /\ input[3] = "a"
  /\ out = <<"B", " ", "a">>

CasedOnlyInWords(s) ==
  \A i \in 1..Len(s) :
    (UpperCaseOf(s[i]) # <<s[i]>> \/ LowerCaseOf(s[i]) # <<s[i]>>) => InWord(s, i)

Event(op, arg, text, errs) == [op |-> op, arg |-> arg, text |-> text, errors |-> errs]

\* What document.execCommand("copy") can do: report success, report
\* failure, or throw.
ExecResults == {"true", "false", "throws"}

\* What awaiting a clipboard promise can end in.
Settlements == {"resolved", "rejected"}

\* The texts typed into the converter's input box.
AppTexts == {<<>>, Str(" "), Str("aB"), Str("a b"), Str(" a.")}

\* The history of the last copy action is dropped by the next handler that
\* runs once the action is over.
Forget == IF copying = Idle THEN <<>> ELSE trace

\* showToast: the message is put on display.
showToast(msg) == toast' = msg

AfterCopyAlwaysCopied(tr, ok) ==
  /\ showToast("Copied")
  /\ trace' = tr \o <<Event("toast", "Copied", <<>>, FALSE)>>

\* onCopy once safeCopyToClipboard has answered: "Copied" on success,
\* otherwise the output is selected and the hint is shown.
AfterSafeCopy(tr, ok) ==
  IF ok
  THEN /\ showToast("Copied")
       /\ trace' = tr \o <<Event("toast", "Copied", <<>>, FALSE)>>
  ELSE /\ showToast("Copy blocked. Selected text - press Ctrl/Cmd+C.")
       /\ trace' = tr \o <<Event("selectOutputText", "", <<>>, FALSE),
                           Event("toast", "Copy blocked. Selected text - press Ctrl/Cmd+C.", <<>>, FALSE)>>

\* safeCopyToClipboard's second attempt: a hidden textarea holding the text
\* and document.execCommand("copy"), whose answer is returned; a throw is
\* a failure.
ExecCommandCopy(tr, text) ==
  \E r \in ExecResults :
    AfterSafeCopy(tr \o <<Event("execCommand", r, text, FALSE)>>, r = "true")

InitApp ==
  /\ pc = "app"
  /\ input = <<>> /\ preserve = TRUE /\ active = "upper"
  /\ out = computeOutput(<<>>, TRUE, "upper")
  /\ str = <<>>
  /\ base = DEFAULTS /\ data = DEFAULTS /\ opts = NoOpts /\ html = <<>>
  /\ showErrors = FALSE /\ toast = "" /\ copying = Idle /\ trace = <<>> /\ reads = 0

\* The input box's onChange.
setInput ==
  /\ pc = "app"
  /\ \E v \in AppTexts :
       /\ input' = v
       /\ out' = computeOutput(v, preserve, active)
  /\ trace' = Forget
  /\ UNCHANGED <<pc, base, str, data, opts, html, preserve, active,
                 showErrors, toast, copying, reads>>

\* The Clear button.
ClearInput ==
  /\ pc = "app"
  /\ input' = <<>>
  /\ out' = computeOutput(<<>>, preserve, active)
  /\ trace' = Forget
  /\ UNCHANGED <<pc, base, str, data, opts, html, preserve, active,
                 showErrors, toast, copying, reads>>

\* The preserve checkbox.
setPreserve ==
  /\ pc = "app"
  /\ \E b \in BOOLEAN :
       /\ preserve' = b
       /\ out' = computeOutput(input, b, active)
  /\ trace' = Forget
  /\ UNCHANGED <<pc, base, str, data, opts, html, input, active,
                 showErrors, toast, copying, reads>>

\* A transform button.
setActive ==
  /\ pc = "app"
  /\ \E k \in ActionKeys :
       /\ active' = k
       /\ out' = computeOutput(input, preserve, k)
  /\ trace' = Forget
  /\ UNCHANGED <<pc, base, str, data, opts, html, input, preserve,
                 showErrors, toast, copying, reads>>

\* onCopy up to its await.  The Copy button is disabled while the output is
\* blank; the handler is taken to be callable in every state, which covers
\* the calls the button allows and exercises the handler's own blank check.
\* navigator.clipboard.writeText is either missing, and the second attempt
\* follows at once, or called, and the handler waits for its promise.  One
\* copy action is in flight at a time.
onCopy ==
  /\ pc = "app" /\ copying = Idle
  /\ LET text == out
         tr == <<Event("onCopy", "", text, FALSE)>>
     IN  IF Trim(text) = <<>>
         THEN /\ showToast("Nothing to copy")
              /\ trace' = tr \o <<Event("toast", "Nothing to copy", <<>>, FALSE)>>
              /\ copying' = Idle
         ELSE \/ /\ ExecCommandCopy(tr \o <<Event("writeText", "absent", text, FALSE)>>, text)
                 /\ copying' = Idle
              \/ /\ trace' = tr \o <<Event("writeText", "called", text, FALSE)>>
                 /\ copying' = [pc |-> "writeText", kind |-> "case",
                                hasErrors |-> FALSE, text |-> text]
                 /\ UNCHANGED toast
  /\ UNCHANGED <<pc, base, str, out, data, opts, html, input, preserve, active,
                 showErrors, reads>>

\* onCopy after its await: writeText's promise resolved, which is success,
\* or rejected, and the second attempt follows.
CopySettles ==
  /\ pc = "app" /\ copying.pc = "writeText" /\ copying.kind = "case"
  /\ \E r \in Settlements :
       LET tr == trace \o <<Event("writeText.then", r, copying.text, FALSE)>>
       IN  IF r = "resolved"
           THEN AfterSafeCopy(tr, TRUE)
           ELSE ExecCommandCopy(tr, copying.text)
  /\ copying' = Idle
  /\ UNCHANGED <<pc, base, str, out, data, opts, html, input, preserve, active,
                 showErrors, reads>>

\* showToast's timer: the message is taken down.
ToastTimeout ==
  /\ pc = "app" /\ toast # ""
  /\ toast' = ""
  /\ UNCHANGED <<pc, base, str, out, data, opts, html, input, preserve, active,
                 showErrors, copying, trace, reads>>

NextApp ==
  \/ setInput \/ ClearInput \/ setPreserve \/ setActive
  \/ onCopy \/ CopySettles \/ ToastTimeout

SpecApp == InitApp /\ [][NextApp]_vars

\* The event at place i of the trace is a call of op that ended in one of args.
Did(i, op, args) ==
  /\ i \in DOMAIN trace
  /\ trace[i].op = op
  /\ trace[i].arg \in args

\* The output's render is the transform of the current input.
OutputIsComputed == pc = "app" => out = computeOutput(input, preserve, active)

\* C23: the converter's copy action on a blank output shows "Nothing to
\* copy" and attempts nothing; otherwise it first tries
\* navigator.clipboard.writeText, tries document.execCommand("copy") only
\* when that is missing or rejected, selects the output and shows the
\* copy-blocked hint only when that fails too, and shows "Copied" only
\* after an attempt that reported success.
C23_CopyFallbackOrder ==
  (pc = "app" /\ trace # <<>>) =>
    LET n == Len(trace)
        text == trace[1].text
    IN  /\ trace[1].op = "onCopy"
        /\ OutputIsComputed
        /\ Trim(text) = <<>> =>
             /\ n = 2
             /\ Did(2, "toast", {"Nothing to copy"})
        /\ Trim(text) # <<>> =>
             /\ n >= 2
             /\ Did(2, "writeText", {"absent", "called"})
             /\ \A i \in 2..n :
                  /\ trace[i].op \in {"writeText", "writeText.then", "execCommand"} =>
                       trace[i].text = text
                  /\ trace[i].op = "writeText" => i = 2
                  /\ trace[i].op = "writeText.then" => Did(i - 1, "writeText", {"called"})
                  /\ trace[i].op = "execCommand" =>
                       \/ Did(i - 1, "writeText", {"absent"})
                       \/ Did(i - 1, "writeText.then", {"rejected"})
                  /\ trace[i].op = "selectOutputText" =>
                       Did(i - 1, "execCommand", {"false", "throws"})
                  /\ trace[i].op = "toast" =>
                       \/ /\ trace[i].arg = "Copied"
                          /\ \/ Did(i - 1, "writeText.then", {"resolved"})
                             \/ Did(i - 1, "execCommand", {"true"})
                       \/ /\ trace[i].arg = "Copy blocked. Selected text - press Ctrl/Cmd+C."
                          /\ Did(i - 1, "selectOutputText", {""})
                  /\ trace[i].op = "toast" => i = n
             /\ copying = Idle => trace[n].op = "toast"
             /\ copying # Idle => Did(n, "writeText", {"called"})

\* A copy whose writeText was rejected and whose execCommand reported
\* failure: the output was selected and the hint is on display.
C23_Witness ==
  /\ pc = "app" /\ Len(trace) = 6
  /\ Did(3, "writeText.then", {"rejected"})
  /\ Did(4, "execCommand", {"false"})
  /\ Did(5, "selectOutputText", {""})
  /\ toast = "Copy blocked. Selected text - press Ctrl/Cmd+C."

\* ---------------------------------------------------------------------
\* The signature form: validation, its handlers and its copy actions
\* ---------------------------------------------------------------------

MaxFormEdits == 1
MaxPendingReads == 1

\* The messages are those passed to toast(); the hyphen in "Copy failed -
\* your browser blocked clipboard" stands for the source's dash, U+2014.

\* /^[^\s@]+@[^\s@]+\.[^\s@]{2,}$/ on the trimmed value: one "@" with
\* something before it, no white space, and after it a "." that has at
\* least one character before it and at least two behind it.
isEmail(v) ==
  LET s == Trim(v)
      ats == {i \in 1..Len(s) : s[i] = "@"}
  IN  /\ s # <<>>
      /\ Cardinality(ats) = 1
      /\ \A i \in 1..Len(s) : s[i] \notin WhiteSpace
      /\ \A a \in ats :
           /\ a > 1
           /\ \E j \in (a + 2)..(Len(s) - 2) : s[j] = "."

PhoneChars == {"+", "(", ")", "-"} \cup WhiteSpace \cup Digits

\* /^[+()\-\s\d]{6,}$/ on the trimmed value; an empty value passes.
isPhone(v) ==
  LET s == Trim(v)
  IN  \/ s = <<>>
      \/ /\ Len(s) >= 6
         /\ \A i \in 1..Len(s) : s[i] \in PhoneChars

\* Characters a host may not hold, among those that are typed here.
ForbiddenHostChars == {" ", "<", ">", "^", "|", "[", "]", "%", "\\"}

\* new URL(u) for a u that normalizeUrl returned: a mailto: or tel: address
\* always parses; an http(s) address parses when its host, the part up to
\* the first "/", "?" or "#", is not empty and holds no forbidden
\* character.  Ports and credentials are not typed here.
UrlParses(u) ==
  IF MatchesIgnoreCase(u, Str("mailto:")) \/ MatchesIgnoreCase(u, Str("tel:"))
  THEN TRUE
  ELSE LET skip == IF MatchesIgnoreCase(u, Str("https://")) THEN 8 ELSE 7
           rest == SubSeq(u, skip + 1, Len(u))
           stops == {i \in 1..Len(rest) : rest[i] \in {"/", "?", "#"}}
           hostLen == IF stops = {} THEN Len(rest)
                      ELSE (CHOOSE i \in stops : \A k \in stops : i <= k) - 1
       IN  /\ hostLen > 0
           /\ \A i \in 1..hostLen : rest[i] \notin ForbiddenHostChars

\* An empty value passes; otherwise new URL(normalizeUrl(s)) must not throw.
isUrlOrDomain(v) ==
  LET s == Trim(v)
  IN  \/ s = <<>>
      \/ UrlParses(normalizeUrl(s))

req2(v, label) ==
  LET s == Trim(v)
  IN  IF s = <<>> THEN label \o " is required"
      ELSE IF Len(s) < 2 THEN "Enter at least 2 characters"
      ELSE ""

UrlFields ==
  {"websiteUrl", "logoUrl", "linkedin", "facebook", "twitter", "instagram", "whatsapp"}

ValidatedFields ==
  {"firstName", "lastName", "jobTitle", "companyName", "emailAddress",
   "department", "address", "officePhone", "mobilePhone"} \cup UrlFields

\* The message the errors memo holds for field f when its value is v, ""
\* when the value is fine.
FieldError(f, v) ==
  CASE f = "firstName" -> req2(v, "First Name")
    [] f = "lastName" -> req2(v, "Last Name")
    [] f = "jobTitle" -> req2(v, "Job Title")
    [] f = "companyName" -> req2(v, "Company Name")
    [] f = "emailAddress" ->
         IF Trim(v) = <<>> THEN "Email Address is required"
         ELSE IF isEmail(Trim(v)) THEN "" ELSE "Enter a valid email"
    [] f = "department" ->
         IF Trim(v) # <<>> /\ Len(Trim(v)) < 2
         THEN "Enter at least 2 characters" ELSE ""
    [] f = "address" ->
         IF Trim(v) # <<>> /\ Len(Trim(v)) < 4
         THEN "Enter at least 4 characters" ELSE ""
    [] f \in {"officePhone", "mobilePhone"} ->
         IF isPhone(v) THEN "" ELSE "Enter a valid phone number"
    [] f \in UrlFields ->
         IF isUrlOrDomain(v) THEN "" ELSE "Enter a valid URL"

\* The fields typed into: a required one, an optional one, whose handler
\* is the same as every other field's, and the logo URL, whose handler
\* differs; and what is typed.
TypedFields == {"firstName", "officePhone", "logoUrl"}

FormValues(f) ==
  CASE f = "firstName" -> {<<>>}
    [] f = "officePhone" -> {Str("12")}
    [] f = "logoUrl" -> {<<>>, Str("x")}

\* The values field f takes in the form: empty, the demo's, and the typed.
ValuesOf(f) ==
  {<<>>, DEMO_DATA[f]} \cup (IF f \in TypedFields THEN FormValues(f) ELSE {})

\* The messages of the values the fields take, worked out once.
ErrorMemo == [f \in ValidatedFields |-> [v \in ValuesOf(f) |-> FieldError(f, v)]]

\* The errors object: a message per validated field, "" when it is fine.
errors(d) == [f \in ValidatedFields |-> ErrorMemo[f][d[f]]]

\* The fields that have a message.
Invalid(d) == {f \in ValidatedFields : errors(d)[f] # ""}

HasErrorsNever(d) == FALSE

hasErrors(d) == \E f \in ValidatedFields : errors(d)[f] # ""

\* previewTheme stays "light".
FormOpts == [theme |-> "light"]


\* What reader.result is after readAsDataURL.
UploadedLogo == Str("data:image/png;base64,AA==")

\* The fields edited since the form was last cleared or filled; what an
\* upload put in logoDataUrl is not an edit.
Edited(d, b) == Cardinality({f \in Fields \ {"logoDataUrl"} : d[f] # b[f]})

\* The onChange of a field: the logo URL's also drops an uploaded logo.
Typed(s, f, v) ==
  IF f = "logoUrl"
  THEN [s EXCEPT !.logoUrl = v, !.logoDataUrl = <<>>]
  ELSE [s EXCEPT ![f] = v]

LogoLoadedKeepUrl(s, result) == [s EXCEPT !.logoDataUrl = result]

\* reader.onload's update of the form.
LogoLoaded(s, result) == [s EXCEPT !.logoDataUrl = result, !.logoUrl = <<>>]

\* What one handler can make of a form s that was cleared or filled to b.
FormSteps(s, b) ==
  {d \in UNION {{Typed(s, f, v) : v \in FormValues(f)} : f \in TypedFields} :
     Edited(d, b) <= MaxFormEdits}
  \cup {LogoLoaded(s, result) : result \in {UploadedLogo, <<>>}}

RECURSIVE FormClosure(_, _)
FormClosure(S, b) ==
  LET N == S \cup UNION {FormSteps(s, b) : s \in S}
  IN  IF N = S THEN S ELSE FormClosure(N, b)

\* The records the form can hold.
FormRecords == FormClosure({DEFAULTS}, DEFAULTS) \cup FormClosure({DemoFilled}, DemoFilled)

\* The signatureHtml memo of a render whose data is d and has no error,
\* worked out once for each record.
signatureHtml ==
  [d \in {r \in FormRecords : ~hasErrors(r)} |-> buildSignatureHTML(d, FormOpts)]

InitForm ==
  /\ pc = "form"
  /\ base = DEFAULTS /\ data = DEFAULTS
  /\ opts = FormOpts
  /\ html = <<>>
  /\ str = <<>> /\ out = <<>>
  /\ input = <<>> /\ preserve = TRUE /\ active = "upper"
  /\ showErrors = FALSE /\ toast = "" /\ copying = Idle /\ trace = <<>> /\ reads = 0

onChange ==
  /\ pc = "form"
  /\ \E f \in TypedFields : \E v \in FormValues(f) :
       /\ data' = Typed(data, f, v)
       /\ Edited(data', base) <= MaxFormEdits
  /\ trace' = Forget
  /\ UNCHANGED <<pc, base, str, out, opts, html, input, preserve, active,
                 showErrors, toast, copying, reads>>

clearAll ==
  /\ pc = "form"
  /\ data' = DEFAULTS /\ base' = DEFAULTS
  /\ showErrors' = FALSE
  /\ toast' = "Cleared"
  /\ trace' = Forget
  /\ UNCHANGED <<pc, str, out, opts, html, input, preserve, active, copying, reads>>

fillDemo ==
  /\ pc = "form"
  /\ data' = [DEMO_DATA EXCEPT !.logoUrl = <<>>, !.logoDataUrl = DEMO_LOGO]
  /\ base' = data'
  /\ showErrors' = FALSE
  /\ toast' = "Demo data filled"
  /\ trace' = Forget
  /\ UNCHANGED <<pc, str, out, opts, html, input, preserve, active, copying, reads>>

\* A file is picked: its read starts and completes later.
onLogoFileChange ==
  /\ pc = "form" /\ reads < MaxPendingReads
  /\ reads' = reads + 1
  /\ trace' = Forget
  /\ UNCHANGED <<pc, base, str, out, data, opts, html, input, preserve, active,
                 showErrors, toast, copying>>

\* reader.onload: the result is a data URL, or "" when it is not a string.
ReaderOnload ==
  /\ pc = "form" /\ reads > 0
  /\ \E result \in {UploadedLogo, <<>>} : data' = LogoLoaded(data, result)
  /\ toast' = "Logo added"
  /\ reads' = reads - 1
  /\ trace' = Forget
  /\ UNCHANGED <<pc, base, str, out, opts, html, input, preserve, active,
                 showErrors, copying>>

\* The read fails: no handler is registered for it.
ReaderError ==
  /\ pc = "form" /\ reads > 0
  /\ reads' = reads - 1
  /\ trace' = Forget
  /\ UNCHANGED <<pc, base, str, out, data, opts, html, input, preserve, active,
                 showErrors, toast, copying>>

\* copyHtml's second attempt: a hidden textarea and
\* document.execCommand("copy"), whose answer is not looked at; only a
\* throw is a failure.  now tells whether a field is invalid at this moment.
HtmlExecCommandCopy(tr, sig, now) ==
  \E r \in ExecResults :
    LET msg == IF r = "throws" THEN "Copy failed - your browser blocked clipboard" ELSE "HTML copied"
    IN  /\ toast' = msg
        /\ trace' = tr \o <<Event("copyHtml.execCommand", r, sig, now),
                            Event("toast", msg, <<>>, now)>>

\* copyHtml up to its await, with the hasErrors and signatureHtml of the
\* render it was created in.  navigator.clipboard.writeText throws at once,
\* as when navigator.clipboard is missing, and the second attempt follows,
\* or it is called and copyHtml waits for its promise.
CopyHtmlBody(tr, hasErr, sig, kind, now) ==
  /\ showErrors' = TRUE
  /\ LET t1 == tr \o <<Event("copyHtml", "", sig, now),
                       Event("setShowErrors", "true", <<>>, now)>>
     IN  IF hasErr
         THEN /\ toast' = "Fix validation errors"
              /\ trace' = t1 \o <<Event("toast", "Fix validation errors", <<>>, now)>>
              /\ copying' = Idle
         ELSE \/ /\ HtmlExecCommandCopy(
                      t1 \o <<Event("writeText", "throws", sig, now)>>, sig, now)
                 /\ copying' = Idle
              \/ /\ trace' = t1 \o <<Event("writeText", "called", sig, now)>>
                 /\ copying' = [pc |-> "writeText", kind |-> kind,
                                hasErrors |-> hasErr, text |-> sig]
                 /\ UNCHANGED toast

\* The signatureHtml a handler of this render reads; a render with errors
\* never reads it.
Captured == IF hasErrors(data) THEN <<>> ELSE signatureHtml[data]

\* The "Copy HTML" buttons.  One copy action is in flight at a time.
copyHtml ==
  /\ pc = "form" /\ copying = Idle
  /\ \E sig \in {Captured} : \E now \in {Invalid(data) # {}} :
       CopyHtmlBody(<<>>, hasErrors(data), sig, "copyHtml", now)
  /\ UNCHANGED <<pc, base, str, out, data, opts, html, input, preserve, active, reads>>

\* The "Copy signature" button, up to its first await: a rich copy by
\* document.execCommand("copy") on a selected container; when that does not
\* report success, navigator.clipboard.write with a ClipboardItem, which is
\* skipped or throws, both noted as a throw, or is called and awaited; and
\* then copyHtml.
copyRich ==
  /\ pc = "form" /\ copying = Idle
  /\ \E sig \in {Captured} : \E now \in {Invalid(data) # {}} :
       LET hasErr == hasErrors(data)
           t0 == <<Event("copyRich", "", sig, now),
                   Event("setShowErrors", "true", <<>>, now)>>
       IN  IF hasErr
           THEN /\ showErrors' = TRUE
                /\ toast' = "Fix validation errors"
                /\ trace' = t0 \o <<Event("toast", "Fix validation errors", <<>>, now)>>
                /\ copying' = Idle
           ELSE \E r \in ExecResults :
                  LET t1 == t0 \o <<Event("copyRich.execCommand", r, sig, now)>>
                  IN  IF r = "true"
                      THEN /\ showErrors' = TRUE
                           /\ toast' = "Signature copied"
                           /\ trace' = t1 \o <<Event("toast", "Signature copied", <<>>, now)>>
                           /\ copying' = Idle
                      ELSE \/ CopyHtmlBody(t1 \o <<Event("write", "throws", sig, now)>>,
                                        hasErr, sig, "copyRich", now)
                           \/ /\ showErrors' = TRUE
                              /\ trace' = t1 \o <<Event("write", "called", sig, now)>>
                              /\ copying' = [pc |-> "write", kind |-> "copyRich",
                                             hasErrors |-> hasErr, text |-> sig]
                              /\ UNCHANGED toast
  /\ UNCHANGED <<pc, base, str, out, data, opts, html, input, preserve, active, reads>>

\* A copy action after its await.  copyHtml: the promise of writeText
\* resolved, or rejected and the second attempt follows.  copyRich: the
\* promise of write resolved, or rejected and copyHtml is called, the one
\* of the render copyRich was created in.
FormCopySettles ==
  /\ pc = "form" /\ copying # Idle
  /\ \E r \in Settlements : \E now \in {Invalid(data) # {}} :
       LET sig == copying.text
       IN  IF copying.pc = "writeText"
           THEN LET tr == trace \o <<Event("writeText.then", r, sig, now)>>
                IN  /\ IF r = "resolved"
                       THEN /\ toast' = "HTML copied"
                            /\ trace' = tr \o <<Event("toast", "HTML copied", <<>>, now)>>
                       ELSE HtmlExecCommandCopy(tr, sig, now)
                    /\ copying' = Idle
                    /\ UNCHANGED showErrors
           ELSE LET tr == trace \o <<Event("write.then", r, sig, now)>>
                IN  IF r = "resolved"
                    THEN /\ toast' = "Signature copied"
                         /\ trace' = tr \o <<Event("toast", "Signature copied", <<>>, now)>>
                         /\ copying' = Idle
                         /\ UNCHANGED showErrors
                    ELSE CopyHtmlBody(tr, copying.hasErrors, sig, "copyRich", now)
  /\ UNCHANGED <<pc, base, str, out, data, opts, html, input, preserve, active, reads>>

\* The effect on toastMsg: the message is taken down after its time.
ToastEffect ==
  /\ pc = "form" /\ toast # ""
  /\ toast' = ""
  /\ UNCHANGED <<pc, base, str, out, data, opts, html, input, preserve, active,
                 showErrors, copying, trace, reads>>

NextForm ==
  \/ onChange \/ clearAll \/ fillDemo
  \/ onLogoFileChange \/ ReaderOnload \/ ReaderError
  \/ copyHtml \/ copyRich \/ FormCopySettles
  \/ ToastEffect

SpecForm == InitForm /\ [][NextForm]_vars

\* C25: in the form, whatever was typed, uploaded, filled or cleared, and
\* whenever an upload's read completed, at most one of logoUrl and
\* logoDataUrl is non-empty.
C25_OneLogoSource ==
  pc = "form" => (data.logoUrl = <<>> \/ data.logoDataUrl = <<>>)

\* An upload's read has completed in a form that had a logo URL typed in or
\* the demo logo: the uploaded logo is the only one.
C25_Witness ==
  /\ pc = "form"
  /\ data.logoDataUrl = UploadedLogo
  /\ data.logoUrl = <<>>
  /\ toast = "Logo added"

\* The calls that try to put something on the clipboard.
WriteAttempts ==
  {i \in DOMAIN trace :
     \/ trace[i].op \in {"copyHtml.execCommand", "copyRich.execCommand"}
     \/ trace[i].op \in {"writeText", "write"} /\ trace[i].arg = "called"}

\* C22 as stated: no copy action ever tries to write to the clipboard at a
\* moment when the form has a validation error.
C22_NoWriteWhileErrors ==
  pc = "form" => \A i \in WriteAttempts : ~trace[i].errors

\* C22: a copy action started while the form has a validation error sets
\* showErrors, shows "Fix validation errors" and ends without trying to
\* write; a copy action started without one shows no such message, and all
\* it ever tries to write, also after the form was edited while it waited,
\* is the signature of the form it was started on, which had no error.
C22_CopyGatedAtClick ==
  (pc = "form" /\ trace # <<>>) =>
    /\ trace[1].op \in {"copyHtml", "copyRich"}
    /\ \E i \in {2, 3} : Did(i, "setShowErrors", {"true"})
    /\ trace[1].errors =>
         /\ WriteAttempts = {}
         /\ showErrors = TRUE
         /\ copying = Idle
         /\ Did(Len(trace), "toast", {"Fix validation errors"})
    /\ ~trace[1].errors =>
         /\ \E d \in DOMAIN signatureHtml :
              /\ Invalid(d) = {}
              /\ trace[1].text = signatureHtml[d]
         /\ \A i \in WriteAttempts : trace[i].text = trace[1].text
         /\ \A i \in DOMAIN trace : ~Did(i, "toast", {"Fix validation errors"})

\* "Copy signature" was pressed on a form with a validation error: the
\* errors are shown, the message is up and nothing was written.
C22_Witness ==
  /\ pc = "form"
  /\ Len(trace) = 3
  /\ trace[1].op = "copyRich" /\ trace[1].errors
  /\ showErrors = TRUE
  /\ toast = "Fix validation errors"

\* C26 as stated: copyHtml shows "HTML copied" only after writeText
\* resolved or execCommand("copy") reported success, and shows "Copy
\* failed" whenever execCommand, tried after writeText failed, does not
\* report success.
C26_HtmlCopiedOnlyOnSuccess ==
  pc = "form" =>
    \A i \in DOMAIN trace :
      /\ Did(i, "toast", {"HTML copied"}) =>
           \/ Did(i - 1, "writeText.then", {"resolved"})
           \/ Did(i - 1, "copyHtml.execCommand", {"true"})
      /\ Did(i, "copyHtml.execCommand", {"false", "throws"}) =>
           Did(i + 1, "toast", {"Copy failed - your browser blocked clipboard"})

=============================================================================
